---- MODULE Spec2Model ----
(***************************************************************************)
(* Agent A of ESG_Greenwashing (src/agents/agent_a.py): retrieval ->       *)
(* company disambiguation -> claim extraction with one repair attempt ->   *)
(* citation enrichment -> deduplication.                                   *)
(*                                                                         *)
(* Python values are tagged records, so values of different Python types   *)
(* can sit in one field:                                                   *)
(*   None -> [none |-> TRUE]     str  -> [str |-> <<chars>>]               *)
(*   int  -> [int |-> n]         list -> [list |-> <<elements>>]           *)
(*   dict -> [dict |-> record over the keys that are present]              *)
(* A raised exception is the value Raised.  Similarity scores (floats) are *)
(* integers.                                                               *)
(***************************************************************************)
EXTENDS Integers, Sequences, FiniteSets, TLC

VARIABLES
    pc,                 \* position inside agent_a_extract_claims
    preferred_company,  \* argument of agent_a_extract_claims
    hits,               \* what index.search returned: <<[id, score], ...>>
    results,            \* retrieve_all(...)
    filtered,           \* passages matching the preferred company
    company_ranked,     \* rank_companies(...)
    selected_company,
    selected_passages,
    calls,              \* texts returned by ollama.chat so far, in order
    raw,                \* text returned by ask_llm_extract_claims
    cite_map,           \* citation index returned by ask_llm_extract_claims
    parsed,             \* claims after safe_parse_json / enrichment
    result,             \* value returned (or exception raised) to the caller
    fn,                 \* function-level harness: which function is applied
    arg,                \* function-level harness: its arguments
    out                 \* function-level harness: its results

vars == <<pc, preferred_company, hits, results, filtered,
          company_ranked, selected_company, selected_passages, calls, raw,
          cite_map, parsed, result, fn, arg, out>>

pipeVars == <<pc, preferred_company, hits, results, filtered,
              company_ranked, selected_company, selected_passages, calls, raw,
              cite_map, parsed, result>>

fnVars == <<fn, arg, out>>

-----------------------------------------------------------------------------
(* Python values *)

None == [none |-> TRUE]
PyStr(s) == [str |-> s]
PyInt(n) == [int |-> n]
PyList(s) == [list |-> s]
PyDict(d) == [dict |-> d]
Raised == [raised |-> TRUE]

IsNone(v) == "none" \in DOMAIN v
IsStr(v) == "str" \in DOMAIN v
IsInt(v) == "int" \in DOMAIN v
IsList(v) == "list" \in DOMAIN v
IsDict(v) == "dict" \in DOMAIN v
IsRaised(v) == "raised" \in DOMAIN v

\* Python truth value of the values the program tests with `if x` / `x or d`
Truthy(v) ==
    \/ IsStr(v) /\ v.str # <<>>
    \/ IsInt(v) /\ v.int # 0
    \/ IsList(v) /\ v.list # <<>>
    \/ IsDict(v) /\ DOMAIN v.dict # {}

\* d.get(k, default)
Get(d, k, default) == IF k \in DOMAIN d.dict THEN d.dict[k] ELSE default

\* d[k] = v
SetKey(d, k, v) ==
    PyDict([x \in DOMAIN d.dict \cup {k} |-> IF x = k THEN v ELSE d.dict[x]])

Range(s) == {s[i] : i \in 1..Len(s)}

RECURSIVE SelectSeqBy(_, _)
\* [x for x in s if x in keep]
SelectSeqBy(s, keep) ==
    IF s = <<>> THEN <<>>
    ELSE IF Head(s) \in keep THEN <<Head(s)>> \o SelectSeqBy(Tail(s), keep)
    ELSE SelectSeqBy(Tail(s), keep)

Take(s, n) == IF Len(s) <= n THEN s ELSE SubSeq(s, 1, n)

-----------------------------------------------------------------------------
(* Characters and re.sub(r"\s+", ...) *)

Whitespace == {" ", "\t"}
Lower(ch) == IF ch = "A" THEN "a" ELSE IF ch = "B" THEN "b" ELSE ch

RECURSIVE StripAllWs(_)
\* re.sub(r"\s+", "", s)
StripAllWs(s) ==
    IF s = <<>> THEN <<>>
    ELSE IF Head(s) \in Whitespace THEN StripAllWs(Tail(s))
    ELSE <<Head(s)>> \o StripAllWs(Tail(s))

LowerStr(s) == [i \in 1..Len(s) |-> Lower(s[i])]

RECURSIVE CollapseWs(_)
\* re.sub(r"\s+", " ", s): every maximal run of whitespace becomes one space
CollapseWs(s) ==
    IF s = <<>> THEN <<>>
    ELSE IF Head(s) \in Whitespace
         THEN IF Len(s) > 1 /\ s[2] \in Whitespace
              THEN CollapseWs(Tail(s))
              ELSE <<" ">> \o CollapseWs(Tail(s))
         ELSE <<Head(s)>> \o CollapseWs(Tail(s))

RECURSIVE LStrip(_)
LStrip(s) == IF s # <<>> /\ Head(s) \in Whitespace THEN LStrip(Tail(s)) ELSE s

RECURSIVE RStrip(_)
RStrip(s) ==
    IF s # <<>> /\ s[Len(s)] \in Whitespace
    THEN RStrip(SubSeq(s, 1, Len(s) - 1)) ELSE s

\* normalize_ws(s); `s or ""` turns None and "" into ""
normalize_ws(v) ==
    PyStr(RStrip(LStrip(CollapseWs(IF Truthy(v) THEN v.str ELSE <<>>))))

CITE_CHUNK_MAXLEN == 160

\* truncate(s, max_len)
truncate(v, max_len) ==
    LET s == normalize_ws(v).str
    IN  IF max_len # 0 /\ Len(s) > max_len
        THEN PyStr(SubSeq(s, 1, max_len) \o <<".", ".", ".">>)
        ELSE PyStr(s)

-----------------------------------------------------------------------------
(* match_company_name *)

\* norm(s) of match_company_name
norm(v) == LowerStr(StripAllWs(IF Truthy(v) THEN v.str ELSE <<>>))

\* Python's `a in b` on strings
Contains(b, a) ==
    \E k \in 0..(Len(b) - Len(a)) : \A i \in 1..Len(a) : b[k + i] = a[i]

\* a mutant: the guard against empty names is missing
match_company_name_NoEmptyGuard(name, preferred) ==
    LET n1 == norm(name)
        n2 == norm(preferred)
    IN  Contains(n1, n2) \/ Contains(n2, n1)

\* a mutant: only the preference is looked for inside the name
match_company_name_OneWay(name, preferred) ==
    LET n1 == norm(name)
        n2 == norm(preferred)
    IN  IF n1 = <<>> \/ n2 = <<>> THEN FALSE ELSE Contains(n1, n2)

\* match_company_name(name, preferred)
match_company_name(name, preferred) ==
    LET n1 == norm(name)
        n2 == norm(preferred)
    IN  IF n1 = <<>> \/ n2 = <<>> THEN FALSE
        ELSE Contains(n1, n2) \/ Contains(n2, n1)

-----------------------------------------------------------------------------
(* The evidence store and retrieve_all *)

Name(s) == PyStr(s)

\* meta.json: one row per index entry, addressed by ordinal position.  Rows
\* 0..4 are the rows the searches of the model vary over; rows 5..9 are five
\* further reports whose company names all contain "a".
meta ==
    [i \in 0..9 |->
        CASE i = 0 -> [company |-> Name(<<"a">>),           chunk |-> PyStr(<<"p", " ", " ", "q">>)]
          [] i = 1 -> [company |-> Name(<<"A", " ", "b">>), chunk |-> PyStr(<<"p">>)]
          [] i = 2 -> [company |-> Name(<<"b">>),           chunk |-> PyStr(<<"q">>)]
          [] i = 3 -> [company |-> Name(<<>>),              chunk |-> PyStr(<<"q", "\t">>)]
          [] i = 4 -> [company |-> Name(<<"a">>),           chunk |-> PyStr(<<"q", "p">>)]
          [] i = 5 -> [company |-> Name(<<"a", "1">>),      chunk |-> PyStr(<<"p">>)]
          [] i = 6 -> [company |-> Name(<<"a", "2">>),      chunk |-> PyStr(<<"p">>)]
          [] i = 7 -> [company |-> Name(<<"a", "3">>),      chunk |-> PyStr(<<"p">>)]
          [] i = 8 -> [company |-> Name(<<"a", "4">>),      chunk |-> PyStr(<<"p">>)]
          [] OTHER -> [company |-> Name(<<"a", "5">>),      chunk |-> PyStr(<<"p">>)]]

RECURSIVE retrieve_all(_)
\* retrieve_all, applied to the (ids, scores) of index.search: rows with a
\* negative id are skipped, the others are joined with meta
retrieve_all(h) ==
    IF h = <<>> THEN <<>>
    ELSE IF Head(h).id < 0 THEN retrieve_all(Tail(h))
    ELSE <<[meta_id |-> Head(h).id,
            score   |-> Head(h).score,
            company |-> meta[Head(h).id].company,
            chunk   |-> normalize_ws(meta[Head(h).id].chunk)]>>
         \o retrieve_all(Tail(h))

-----------------------------------------------------------------------------
(* rank_companies, pick_company_passages, choose_company *)

COMPANY_TOPN == 5
PASSAGES_FOR_SELECTED == 30

RECURSIVE InsertDesc_TiesFirst(_, _)
\* a mutant: x goes in front of the elements with an equal score
InsertDesc_TiesFirst(x, s) ==
    IF s = <<>> THEN <<x>>
    ELSE IF Head(s).score > x.score
         THEN <<Head(s)>> \o InsertDesc_TiesFirst(x, Tail(s))
    ELSE <<x>> \o s

RECURSIVE InsertDesc(_, _)
\* place x behind every element whose score is >= x.score
InsertDesc(x, s) ==
    IF s = <<>> THEN <<x>>
    ELSE IF Head(s).score >= x.score THEN <<Head(s)>> \o InsertDesc(x, Tail(s))
    ELSE <<x>> \o s

RECURSIVE SortDesc(_)
\* sorted(..., key=score, reverse=True): stable, greatest score first
SortDesc(s) ==
    IF s = <<>> THEN <<>>
    ELSE InsertDesc(s[Len(s)], SortDesc(SubSeq(s, 1, Len(s) - 1)))

RECURSIVE Aggregate(_, _)
\* the loop of rank_companies: agg[c] += r["score"] for every truthy company,
\* a dict keeps its keys in insertion order
Aggregate(rs, agg) ==
    IF rs = <<>> THEN agg
    ELSE LET c == Head(rs).company
             at == {i \in 1..Len(agg) : agg[i].company = c}
         IN  IF ~Truthy(c) THEN Aggregate(Tail(rs), agg)
             ELSE IF at = {}
             THEN Aggregate(Tail(rs),
                      Append(agg, [company |-> c, score |-> Head(rs).score]))
             ELSE Aggregate(Tail(rs),
                      [agg EXCEPT ![CHOOSE i \in at : TRUE].score =
                                      @ + Head(rs).score])

\* a mutant: the ranking is cut at the wrong end
rank_companies_Tail(rs, topn) ==
    LET ranked == SortDesc(Aggregate(rs, <<>>))
    IN  IF Len(ranked) <= topn THEN ranked
        ELSE SubSeq(ranked, Len(ranked) - topn + 1, Len(ranked))

\* rank_companies(results, topn): a list of (company, aggregate score)
rank_companies(rs, topn) == Take(SortDesc(Aggregate(rs, <<>>)), topn)

\* a mutant: the candidates are cut to limit before they are sorted
pick_company_passages_CutFirst(rs, company, limit) ==
    SortDesc(Take(SelectSeqBy(rs, {r \in Range(rs) : r.company = company}),
                  limit))

\* pick_company_passages(results, company, limit)
pick_company_passages(rs, company, limit) ==
    Take(SortDesc(SelectSeqBy(rs, {r \in Range(rs) : r.company = company})),
         limit)

RECURSIVE FirstMatch(_, _)
FirstMatch(ranked, preferred) ==
    IF ranked = <<>> THEN None
    ELSE IF match_company_name(Head(ranked).company, preferred)
         THEN Head(ranked).company
         ELSE FirstMatch(Tail(ranked), preferred)

\* choose_company(company_ranked, preferred_company)
choose_company(ranked, preferred) ==
    IF ranked = <<>> THEN None
    ELSE IF Truthy(preferred) THEN FirstMatch(ranked, preferred)
    ELSE ranked[1].company

-----------------------------------------------------------------------------
(* Model responses and safe_parse_json *)

(* A response text is a sequence of tokens: an opening bracket, a closing  *)
(* bracket, a run of characters that is not JSON, or the literal of a JSON *)
(* value without a top-level bracket (object, number, null).  Separators   *)
(* between array elements are left implicit.                               *)
LB == [tok |-> "["]
RB == [tok |-> "]"]
Junk == [tok |-> "junk"]
Lit(v) == [atom |-> v]
IsLit(t) == "atom" \in DOMAIN t

\* the object literal contains a bracketed list (its source_citations)
HasBrackets(t) ==
    /\ IsLit(t)
    /\ IsDict(t.atom)
    /\ \E k \in DOMAIN t.atom.dict : IsList(t.atom.dict[k])

RECURSIVE MatchClose(_, _, _)
\* index of the bracket closing the one opened before position i at the
\* given depth, 0 if there is none
MatchClose(s, i, depth) ==
    IF i > Len(s) THEN 0
    ELSE IF s[i] = RB THEN (IF depth = 1 THEN i ELSE MatchClose(s, i + 1, depth - 1))
    ELSE IF s[i] = LB THEN MatchClose(s, i + 1, depth + 1)
    ELSE MatchClose(s, i + 1, depth)

RECURSIVE Loads(_)
RECURSIVE Elems(_)
\* json.loads(text): [ok |-> TRUE, v |-> value], or [ok |-> FALSE] when it raises
Loads(s) ==
    IF Len(s) = 1 /\ IsLit(s[1]) THEN [ok |-> TRUE, v |-> s[1].atom]
    ELSE IF Len(s) >= 2 /\ s[1] = LB /\ MatchClose(s, 2, 1) = Len(s)
         THEN LET e == Elems(SubSeq(s, 2, Len(s) - 1))
              IN  IF e.ok THEN [ok |-> TRUE, v |-> PyList(e.v)] ELSE [ok |-> FALSE]
         ELSE [ok |-> FALSE]

\* the elements of an array body
Elems(s) ==
    IF s = <<>> THEN [ok |-> TRUE, v |-> <<>>]
    ELSE IF IsLit(s[1])
         THEN LET rest == Elems(Tail(s))
              IN  IF rest.ok THEN [ok |-> TRUE, v |-> <<s[1].atom>> \o rest.v]
                  ELSE [ok |-> FALSE]
    ELSE IF s[1] = LB /\ MatchClose(s, 2, 1) # 0
         THEN LET m == MatchClose(s, 2, 1)
                  first == Loads(SubSeq(s, 1, m))
                  rest == Elems(SubSeq(s, m + 1, Len(s)))
              IN  IF first.ok /\ rest.ok
                  THEN [ok |-> TRUE, v |-> <<first.v>> \o rest.v]
                  ELSE [ok |-> FALSE]
    ELSE [ok |-> FALSE]

\* re.search(r"\[[\s\S]*\]", text) followed by json.loads(m.group(0)): the
\* span runs from the first "[" of the text to its last "]", and brackets
\* inside an object literal count
SpanLoads(s) ==
    LET opens == {i \in 1..Len(s) : s[i] = LB \/ HasBrackets(s[i])}
        closes == {i \in 1..Len(s) : s[i] = RB \/ HasBrackets(s[i])}
    IN  IF opens = {} \/ closes = {} THEN None
        ELSE LET i == CHOOSE x \in opens : \A y \in opens : x <= y
                 j == CHOOSE x \in closes : \A y \in closes : x >= y
             IN  IF i < j /\ s[i] = LB /\ s[j] = RB
                 THEN LET r == Loads(SubSeq(s, i, j))
                      IN  IF r.ok THEN r.v ELSE None
                 ELSE IF i = j
                 THEN \* the span is the one list inside the object literal
                      LET d == s[i].atom.dict
                          ks == {k \in DOMAIN d : IsList(d[k])}
                      IN  IF Cardinality(ks) = 1
                          THEN d[CHOOSE k \in ks : TRUE] ELSE None
                 ELSE None

\* safe_parse_json(text): the parsed value, None when nothing parses
safe_parse_json(text) ==
    LET whole == Loads(text)
    IN  IF whole.ok THEN whole.v ELSE SpanLoads(text)

-----------------------------------------------------------------------------
(* build_context and enrich_claims_with_source_chunks *)

\* the context string of build_context, one line per passage
context_of(passages) ==
    [i \in 1..Len(passages) |->
        <<passages[i].meta_id, passages[i].company, passages[i].chunk>>]

\* the cite_map of build_context: meta_id -> passage
cite_map_of(passages) ==
    [mid \in {passages[i].meta_id : i \in 1..Len(passages)} |->
        LET at == {i \in 1..Len(passages) : passages[i].meta_id = mid}
        IN  passages[CHOOSE i \in at : \A j \in at : j <= i]]

Digits == <<"0", "1", "2", "3", "4", "5", "6", "7", "8", "9">>
IsDigit(ch) == \E d \in 1..10 : Digits[d] = ch
DigitVal(ch) == (CHOOSE d \in 1..10 : Digits[d] = ch) - 1

RECURSIVE DigitsVal(_)
DigitsVal(s) ==
    IF s = <<>> THEN 0
    ELSE 10 * DigitsVal(SubSeq(s, 1, Len(s) - 1)) + DigitVal(s[Len(s)])

\* int(n) inside try/except: [ok |-> TRUE, v |-> mid], or [ok |-> FALSE] when
\* int() raises (None, a string that is not a decimal number)
ToInt(n) ==
    IF IsInt(n) THEN [ok |-> TRUE, v |-> n.int]
    ELSE IF IsStr(n) /\ n.str # <<>> /\ \A i \in 1..Len(n.str) : IsDigit(n.str[i])
         THEN [ok |-> TRUE, v |-> DigitsVal(n.str)]
    ELSE [ok |-> FALSE]

RECURSIVE KeysOf(_)
\* the keys of a dict, each a str
KeysOf(S) ==
    IF S = {} THEN <<>>
    ELSE LET k == CHOOSE x \in S : TRUE
         IN  <<PyStr(<<k>>)>> \o KeysOf(S \ {k})

\* what `for x in v` iterates over: [ok |-> TRUE, v |-> <<...>>], or
\* [ok |-> FALSE] when v is not iterable.  A str yields its characters, a dict
\* its keys.
Iterate(v) ==
    IF IsList(v) THEN [ok |-> TRUE, v |-> v.list]
    ELSE IF IsStr(v) THEN [ok |-> TRUE, v |-> [i \in 1..Len(v.str) |-> PyStr(<<v.str[i]>>)]]
    ELSE IF IsDict(v) THEN [ok |-> TRUE, v |-> KeysOf(DOMAIN v.dict)]
    ELSE [ok |-> FALSE]

\* the excerpt record appended for passage p
Excerpt(mid, p, chunk_maxlen) ==
    [meta_id |-> mid, company |-> p.company, score |-> p.score,
     chunk |-> truncate(p.chunk, chunk_maxlen)]

RECURSIVE ChunksFor_FromMeta(_, _, _)
\* a mutant: an id that is not in the cite_map is looked up in meta instead
ChunksFor_FromMeta(cites, cmap, chunk_maxlen) ==
    IF cites = <<>> THEN <<>>
    ELSE LET n == ToInt(Head(cites))
             rest == ChunksFor_FromMeta(Tail(cites), cmap, chunk_maxlen)
         IN  IF ~n.ok THEN rest
             ELSE IF n.v \in DOMAIN cmap
             THEN <<Excerpt(n.v, cmap[n.v], chunk_maxlen)>> \o rest
             ELSE IF n.v \in DOMAIN meta
             THEN <<[meta_id |-> n.v, company |-> meta[n.v].company, score |-> 0,
                     chunk |-> truncate(meta[n.v].chunk, chunk_maxlen)]>> \o rest
             ELSE rest

RECURSIVE ChunksFor_KeepDangling(_, _, _)
\* a mutant: an id that is not in the cite_map still yields a record
ChunksFor_KeepDangling(cites, cmap, chunk_maxlen) ==
    IF cites = <<>> THEN <<>>
    ELSE LET n == ToInt(Head(cites))
             rest == ChunksFor_KeepDangling(Tail(cites), cmap, chunk_maxlen)
         IN  IF ~n.ok THEN rest
             ELSE IF n.v \notin DOMAIN cmap
             THEN <<[meta_id |-> n.v, company |-> PyStr(<<>>), score |-> 0,
                     chunk |-> PyStr(<<>>)]>> \o rest
             ELSE <<Excerpt(n.v, cmap[n.v], chunk_maxlen)>> \o rest

RECURSIVE ChunksFor(_, _, _)
\* the inner loop of enrich_claims_with_source_chunks
ChunksFor(cites, cmap, chunk_maxlen) ==
    IF cites = <<>> THEN <<>>
    ELSE LET n == ToInt(Head(cites))
             rest == ChunksFor(Tail(cites), cmap, chunk_maxlen)
         IN  IF ~n.ok THEN rest
             ELSE IF n.v \notin DOMAIN cmap THEN rest
             ELSE <<Excerpt(n.v, cmap[n.v], chunk_maxlen)>> \o rest

RECURSIVE EnrichEach(_, _, _)
\* the outer loop: [ok |-> TRUE, v |-> claims], or [ok |-> FALSE] when an
\* element has no .get (AttributeError) or its source_citations is not
\* iterable (TypeError)
EnrichEach(cs, cmap, chunk_maxlen) ==
    IF cs = <<>> THEN [ok |-> TRUE, v |-> <<>>]
    ELSE LET c == Head(cs)
         IN  IF ~IsDict(c) THEN [ok |-> FALSE]
             ELSE LET cites == Iterate(Get(c, "source_citations", PyList(<<>>)))
                  IN  IF ~cites.ok THEN [ok |-> FALSE]
                      ELSE LET rest == EnrichEach(Tail(cs), cmap, chunk_maxlen)
                               done == SetKey(c, "source_chunks",
                                           PyList(ChunksFor(cites.v, cmap, chunk_maxlen)))
                           IN  IF rest.ok
                               THEN [ok |-> TRUE, v |-> <<done>> \o rest.v]
                               ELSE [ok |-> FALSE]

\* enrich_claims_with_source_chunks(claims, cite_map, chunk_maxlen): the
\* claims it returns, or Raised
enrich_claims_with_source_chunks(claims, cmap, chunk_maxlen) ==
    LET it == Iterate(claims)
    IN  IF ~it.ok THEN Raised
        ELSE LET r == EnrichEach(it.v, cmap, chunk_maxlen)
             IN  IF ~r.ok THEN Raised
                 ELSE IF IsList(claims) THEN PyList(r.v)
                 ELSE claims

-----------------------------------------------------------------------------
(* dedupe_claims *)

RECURSIVE IntDigits(_)
IntDigits(n) ==
    IF n < 10 THEN <<Digits[n + 1]>>
    ELSE IntDigits(n \div 10) \o <<Digits[(n % 10) + 1]>>

\* str(x) for the values a citation list holds
Str(x) ==
    IF IsStr(x) THEN x
    ELSE IF IsInt(x) THEN PyStr(IntDigits(x.int))
    ELSE PyStr(<<"N", "o", "n", "e">>)

\* code point order of the characters that occur in citation strings
Ord(ch) == IF IsDigit(ch) THEN 48 + DigitVal(ch) ELSE IF ch = "N" THEN 78 ELSE 100

RECURSIVE StrLess(_, _)
\* a < b on Python strings
StrLess(a, b) ==
    IF b = <<>> THEN FALSE
    ELSE IF a = <<>> THEN TRUE
    ELSE IF Ord(Head(a)) # Ord(Head(b)) THEN Ord(Head(a)) < Ord(Head(b))
    ELSE StrLess(Tail(a), Tail(b))

RECURSIVE SortedStrs(_)
\* sorted(set(...)) of Python strings
SortedStrs(S) ==
    IF S = {} THEN <<>>
    ELSE LET m == CHOOSE x \in S : \A y \in S \ {x} : StrLess(x.str, y.str)
         IN  <<m>> \o SortedStrs(S \ {m})

StrAll(s) == [i \in 1..Len(s) |-> Str(s[i])]

\* the key of a claim in dedupe_claims
DedupeKey(c) ==
    <<Get(c, "company", PyStr(<<>>)),
      normalize_ws(Get(c, "claim_text", PyStr(<<>>))),
      Get(c, "topic", PyStr(<<>>)),
      Get(c, "metric", PyStr(<<>>))>>

\* a mutant: a later duplicate replaces the citations instead of merging
MergeInto_Overwrite(existing, c) ==
    LET cites_new == StrAll(Iterate(Get(c, "source_citations", PyList(<<>>))).v)
        chunks_old == Get(existing, "source_chunks", PyList(<<>>))
        got == Get(c, "source_chunks", PyList(<<>>))
        chunks_new == IF Truthy(got) THEN got ELSE PyList(<<>>)
    IN  SetKey(SetKey(existing, "source_citations",
                      PyList(SortedStrs(Range(cites_new)))),
               "source_chunks", PyList(chunks_old.list \o chunks_new.list))

\* the merge branch of dedupe_claims: existing after c was merged into it
MergeInto(existing, c) ==
    LET cites_old == StrAll(Iterate(Get(existing, "source_citations", PyList(<<>>))).v)
        cites_new == StrAll(Iterate(Get(c, "source_citations", PyList(<<>>))).v)
        merged_cites == SortedStrs(Range(cites_old \o cites_new))
        chunks_old == Get(existing, "source_chunks", PyList(<<>>))
        got == Get(c, "source_chunks", PyList(<<>>))
        chunks_new == IF Truthy(got) THEN got ELSE PyList(<<>>)
    IN  SetKey(SetKey(existing, "source_citations", PyList(merged_cites)),
               "source_chunks", PyList(chunks_old.list \o chunks_new.list))

RECURSIVE DedupeLoop_KeepDup(_, _)
\* a mutant: a duplicate is merged into the first occurrence and kept as well
DedupeLoop_KeepDup(cs, res) ==
    IF cs = <<>> THEN res
    ELSE LET c == Head(cs)
             at == {i \in 1..Len(res) : DedupeKey(res[i]) = DedupeKey(c)}
         IN  IF at # {}
             THEN LET i == CHOOSE x \in at : \A y \in at : x <= y
                  IN  DedupeLoop_KeepDup(Tail(cs),
                          Append([res EXCEPT ![i] = MergeInto(res[i], c)], c))
             ELSE DedupeLoop_KeepDup(Tail(cs), Append(res, c))

RECURSIVE DedupeLoop(_, _)
\* the loop of dedupe_claims; res is `result`, whose elements are the values
\* of `seen` (deep copies of the first occurrences)
DedupeLoop(cs, res) ==
    IF cs = <<>> THEN res
    ELSE LET c == Head(cs)
             at == {i \in 1..Len(res) : DedupeKey(res[i]) = DedupeKey(c)}
         IN  IF at # {}
             THEN LET i == CHOOSE x \in at : TRUE
                  IN  DedupeLoop(Tail(cs), [res EXCEPT ![i] = MergeInto(res[i], c)])
             ELSE DedupeLoop(Tail(cs), Append(res, c))

\* dedupe_claims(claims), claims a sequence of claim dicts
dedupe_claims(claims) == DedupeLoop(claims, <<>>)

-----------------------------------------------------------------------------
(* Inputs *)

MaxHits == 3        \* passages of rows 0..4 one search returns
MaxScore == 2       \* similarity scores are 1..MaxScore

\* preferred_company: absent, empty, blank, matching several rows, matching
\* none
Preferred ==
    {None, PyStr(<<>>), PyStr(<<" ">>), PyStr(<<"a">>), PyStr(<<"B", " ">>),
     PyStr(<<"c">>)}

\* sequences of at most MaxHits distinct rows of 0..4, best score first
HitSeqs ==
    UNION {{h \in [1..n -> [id : 0..4, score : 1..MaxScore]] :
                /\ \A i, j \in 1..n : i < j => h[i].id # h[j].id
                /\ \A i \in 1..(n - 1) : h[i].score >= h[i + 1].score}
           : n \in 0..MaxHits}

\* rows 5..9, each with the lowest score
Bulk == [i \in 1..5 |-> [id |-> 4 + i, score |-> 1]]

\* index.search pads its answer with id -1 up to topk entries
Padding == <<[id |-> -1, score |-> 0]>>

ClaimA ==
    PyDict([company |-> PyStr(<<"a">>), claim_text |-> PyStr(<<"x", " ", "y">>),
            topic |-> PyStr(<<"c">>), metric |-> PyStr(<<"g">>),
            source_citations |-> PyList(<<PyInt(0), PyInt(99)>>)])

\* the same commitment as ClaimA once its text is whitespace-normalised
ClaimA2 ==
    PyDict([company |-> PyStr(<<"a">>),
            claim_text |-> PyStr(<<"x", " ", "\t", "y", " ">>),
            topic |-> PyStr(<<"c">>), metric |-> PyStr(<<"g">>),
            source_citations |-> PyList(<<PyStr(<<"4">>), PyInt(0), PyStr(<<"n">>), None>>)])

ClaimB ==
    PyDict([company |-> PyStr(<<"a">>), claim_text |-> PyStr(<<"z">>),
            topic |-> PyStr(<<"w">>),
            source_citations |-> PyList(<<PyStr(<<"1">>), PyInt(2)>>)])

ClaimNullCites ==
    PyDict([company |-> PyStr(<<"a">>), claim_text |-> PyStr(<<"z">>),
            topic |-> PyStr(<<"c">>), metric |-> PyStr(<<"g">>),
            source_citations |-> None])

ClaimNoCites ==
    PyDict([company |-> PyStr(<<"a">>), claim_text |-> PyStr(<<"z">>),
            topic |-> PyStr(<<"c">>), metric |-> PyStr(<<"g">>)])

TextMalformed == <<Junk>>
TextEmptyArray == <<LB, RB>>
TextClaims == <<LB, Lit(ClaimA), Lit(ClaimB), Lit(ClaimA2), RB>>
TextWrapped == <<Junk, LB, Lit(ClaimA), Lit(ClaimNoCites), RB, Junk>>
TextNonObjects == <<LB, Lit(PyInt(7)), RB>>
TextObject == <<Lit(ClaimA)>>
TextScalar == <<Lit(PyInt(7))>>
TextNull == <<Lit(None)>>
TextNullCites == <<LB, Lit(ClaimB), Lit(ClaimNullCites), RB>>
TextJunkObject == <<Junk, Lit(ClaimA)>>
TextUnclosed == <<LB, Lit(ClaimA)>>

ModelTexts ==
    {TextMalformed, TextEmptyArray, TextClaims, TextWrapped, TextNonObjects,
     TextObject, TextScalar, TextNull, TextNullCites, TextJunkObject,
     TextUnclosed}

-----------------------------------------------------------------------------
(* agent_a_extract_claims *)

Init ==
    /\ pc = "Init"
    /\ preferred_company \in Preferred
    /\ \E h \in HitSeqs, b \in {<<>>, Bulk} : hits = h \o b \o Padding
    /\ results = <<>>
    /\ filtered = <<>>
    /\ company_ranked = <<>>
    /\ selected_company = None
    /\ selected_passages = <<>>
    /\ calls = <<>>
    /\ raw = None
    /\ cite_map = <<>>
    /\ parsed = None
    /\ result = None
    /\ fn = "agent_a_extract_claims"
    /\ arg = None
    /\ out = None

\* results = retrieve_all(query, topk=RETRIEVE_TOPK)
Retrieve ==
    /\ pc = "Init"
    /\ results' = retrieve_all(hits)
    /\ pc' = "Retrieved"
    /\ UNCHANGED <<preferred_company, hits, filtered,
                   company_ranked, selected_company, selected_passages, calls,
                   raw, cite_map, parsed, result, fnVars>>

\* if not results: return {...}
ReturnEmpty ==
    /\ pc = "Retrieved"
    /\ results = <<>>
    /\ result' = [ok |-> TRUE, selected_company |-> preferred_company,
                  claims |-> <<>>]
    /\ pc' = "EmptyRetrieval"
    /\ UNCHANGED <<preferred_company, hits, results, filtered,
                   company_ranked, selected_company, selected_passages, calls,
                   raw, cite_map, parsed, fnVars>>

\* [r for r in results if match_company_name(r.get("company", ""), preferred)]
FilterPreferred(rs, preferred) ==
    SelectSeqBy(rs, {r \in Range(rs) : match_company_name(r.company, preferred)})

\* preferred company given, nothing matches: return {...}
ReturnNoMatch ==
    /\ pc = "Retrieved"
    /\ results # <<>>
    /\ Truthy(preferred_company)
    /\ FilterPreferred(results, preferred_company) = <<>>
    /\ result' = [ok |-> TRUE, selected_company |-> preferred_company,
                  claims |-> <<>>]
    /\ pc' = "NoCompanyMatch"
    /\ UNCHANGED <<preferred_company, hits, results, filtered,
                   company_ranked, selected_company, selected_passages, calls,
                   raw, cite_map, parsed, fnVars>>

\* preferred company given: rank the companies of the filtered passages
RankFiltered ==
    /\ pc = "Retrieved"
    /\ results # <<>>
    /\ Truthy(preferred_company)
    /\ FilterPreferred(results, preferred_company) # <<>>
    /\ filtered' = FilterPreferred(results, preferred_company)
    /\ company_ranked' = rank_companies(filtered', COMPANY_TOPN)
    /\ pc' = "Ranked"
    /\ UNCHANGED <<preferred_company, hits, results,
                   selected_company, selected_passages, calls, raw, cite_map,
                   parsed, result, fnVars>>

\* no preferred company: rank the companies of all passages
RankAll ==
    /\ pc = "Retrieved"
    /\ results # <<>>
    /\ ~Truthy(preferred_company)
    /\ company_ranked' = rank_companies(results, COMPANY_TOPN)
    /\ IF company_ranked' = <<>>
       THEN /\ result' = [ok |-> TRUE, selected_company |-> None, claims |-> <<>>]
            /\ pc' = "NoCompany"
       ELSE /\ result' = result
            /\ pc' = "Ranked"
    /\ UNCHANGED <<preferred_company, hits, results, filtered,
                   selected_company, selected_passages, calls, raw, cite_map,
                   parsed, fnVars>>

\* selected_company = choose_company(...); selected_passages = pick_company_passages(...)
Select ==
    /\ pc = "Ranked"
    /\ selected_company' = choose_company(company_ranked, preferred_company)
    /\ IF ~Truthy(selected_company')
       THEN /\ result' = [ok |-> TRUE,
                          selected_company |-> IF Truthy(preferred_company)
                                               THEN preferred_company ELSE None,
                          claims |-> <<>>]
            /\ pc' = IF Truthy(preferred_company) THEN "NoCompanyMatch" ELSE "NoCompany"
            /\ selected_passages' = selected_passages
       ELSE /\ result' = result
            /\ pc' = "Selected"
            /\ selected_passages' =
                   pick_company_passages(
                       IF Truthy(preferred_company) THEN filtered ELSE results,
                       selected_company', PASSAGES_FOR_SELECTED)
    /\ UNCHANGED <<preferred_company, hits, results, filtered,
                   company_ranked, calls, raw, cite_map, parsed, fnVars>>

\* ask_llm_extract_claims up to the first response: build_context, the first
\* ollama.chat, and the return when the response validates
AskModel ==
    /\ pc = "Selected"
    /\ cite_map' = cite_map_of(selected_passages)
    /\ \E t \in ModelTexts :
          /\ calls' = <<[context |-> context_of(selected_passages), text |-> t]>>
          /\ IF ~IsNone(safe_parse_json(t))
             THEN raw' = t /\ pc' = "Extracted"
             ELSE raw' = raw /\ pc' = "Repair"
    /\ UNCHANGED <<preferred_company, hits, results, filtered,
                   company_ranked, selected_company, selected_passages, parsed,
                   result, fnVars>>

\* a mutant: a repair text that does not parse is asked for once more
AskRepair_Retry ==
    /\ pc = "Repair"
    /\ \E t \in ModelTexts :
          /\ calls' = Append(calls, [context |-> context_of(selected_passages),
                                     text |-> t])
          /\ raw' = t
          /\ pc' = IF IsNone(safe_parse_json(t)) /\ Len(calls) < 2
                   THEN "Repair" ELSE "Extracted"
    /\ UNCHANGED <<preferred_company, hits, results, filtered,
                   company_ranked, selected_company, selected_passages, cite_map,
                   parsed, result, fnVars>>

\* the repair attempt of ask_llm_extract_claims: its text is returned as it is
AskRepair ==
    /\ pc = "Repair"
    /\ \E t \in ModelTexts :
          /\ calls' = Append(calls, [context |-> context_of(selected_passages),
                                     text |-> t])
          /\ raw' = t
    /\ pc' = "Extracted"
    /\ UNCHANGED <<preferred_company, hits, results, filtered,
                   company_ranked, selected_company, selected_passages, cite_map,
                   parsed, result, fnVars>>

\* parsed = safe_parse_json(raw); the ok=False return; the enrichment
ParseAndEnrich ==
    /\ pc = "Extracted"
    /\ LET p == safe_parse_json(raw)
       IN  IF IsNone(p)
           THEN /\ result' = [ok |-> FALSE, selected_company |-> selected_company,
                              raw |-> raw, claims |-> <<>>]
                /\ parsed' = p
                /\ pc' = "ParseFailed"
           ELSE LET e == enrich_claims_with_source_chunks(p, cite_map, CITE_CHUNK_MAXLEN)
                IN  IF IsRaised(e)
                    THEN /\ result' = Raised
                         /\ parsed' = p
                         /\ pc' = "Raised"
                    ELSE /\ result' = result
                         /\ parsed' = e
                         /\ pc' = "Enriched"
    /\ UNCHANGED <<preferred_company, hits, results, filtered,
                   company_ranked, selected_company, selected_passages, calls,
                   raw, cite_map, fnVars>>

\* parsed = dedupe_claims(parsed); return {"ok": True, ...}
DedupeAndReturn ==
    /\ pc = "Enriched"
    /\ parsed' = PyList(dedupe_claims(Iterate(parsed).v))
    /\ result' = [ok |-> TRUE, selected_company |-> selected_company,
                  claims |-> parsed'.list]
    /\ pc' = "Deduped"
    /\ UNCHANGED <<preferred_company, hits, results, filtered,
                   company_ranked, selected_company, selected_passages, calls,
                   raw, cite_map, fnVars>>

Next ==
    \/ Retrieve
    \/ ReturnEmpty
    \/ ReturnNoMatch
    \/ RankFiltered
    \/ RankAll
    \/ Select
    \/ AskModel
    \/ AskRepair
    \/ ParseAndEnrich
    \/ DedupeAndReturn

Spec == Init /\ [][Next]_vars

-----------------------------------------------------------------------------
(* The functions of agent_a.py applied on their own *)

\* agent_a_extract_claims is not running
Idle ==
    /\ pc = "off"
    /\ preferred_company = None
    /\ hits = <<>>
    /\ results = <<>>
    /\ filtered = <<>>
    /\ company_ranked = <<>>
    /\ selected_company = None
    /\ selected_passages = <<>>
    /\ calls = <<>>
    /\ raw = None
    /\ cite_map = <<>>
    /\ parsed = None
    /\ result = None

MaxNameLen == 2     \* characters of a company name given to match_company_name

NameChars == {"a", "A", "b", " ", "\t"}

Strings(n) == UNION {[1..k -> NameChars] : k \in 0..n}

NameArgs == {None} \cup {PyStr(s) : s \in Strings(MaxNameLen)}

InitMatch ==
    /\ Idle
    /\ fn = "match_company_name"
    /\ arg \in [name : NameArgs, preferred : NameArgs]
    /\ out = None

\* match_company_name(name, preferred) and the call with the arguments swapped
ApplyMatch ==
    /\ fn = "match_company_name"
    /\ IsNone(out)
    /\ out' = [r |-> match_company_name(arg.name, arg.preferred),
               swapped |-> match_company_name(arg.preferred, arg.name)]
    /\ UNCHANGED <<pipeVars, fn, arg>>

NextMatch == ApplyMatch

SpecMatch == InitMatch /\ [][NextMatch]_vars

\* the passage retrieve_all builds for row i
Passage(i) == retrieve_all(<<[id |-> i, score |-> 1]>>)[1]

WithChunks(c, ids) ==
    SetKey(c, "source_chunks",
           PyList([k \in 1..Len(ids) |->
                      Excerpt(ids[k], Passage(ids[k]), CITE_CHUNK_MAXLEN)]))

\* ClaimB with an explicit empty metric and integer ids whose decimal strings
\* sort differently from the numbers
ClaimB2 ==
    PyDict([company |-> PyStr(<<"a">>), claim_text |-> PyStr(<<"z">>),
            topic |-> PyStr(<<"w">>), metric |-> PyStr(<<>>),
            source_citations |-> PyList(<<PyInt(10), PyInt(9), PyInt(2)>>)])

MaxClaims == 3      \* claims in a list given to dedupe_claims

DedupePool ==
    {WithChunks(ClaimA, <<0>>), WithChunks(ClaimA2, <<4, 0>>), ClaimA2,
     WithChunks(ClaimB, <<1, 2>>), WithChunks(ClaimB2, <<>>),
     WithChunks(ClaimNoCites, <<2>>)}

InitDedupe ==
    /\ Idle
    /\ fn = "dedupe_claims"
    /\ arg \in UNION {[1..n -> DedupePool] : n \in 0..MaxClaims}
    /\ out = None

\* dedupe_claims(L)
ApplyDedupe ==
    /\ fn = "dedupe_claims"
    /\ IsNone(out)
    /\ out' = [once |-> dedupe_claims(arg)]
    /\ UNCHANGED <<pipeVars, fn, arg>>

\* dedupe_claims(dedupe_claims(L))
ApplyDedupeAgain ==
    /\ fn = "dedupe_claims"
    /\ DOMAIN out = {"once"}
    /\ out' = [once |-> out.once, twice |-> dedupe_claims(out.once)]
    /\ UNCHANGED <<pipeVars, fn, arg>>

NextDedupe == ApplyDedupe \/ ApplyDedupeAgain

SpecDedupe == InitDedupe /\ [][NextDedupe]_vars

MaxCites == 3       \* entries of the varied claim's source_citations

CiteEntries ==
    {PyInt(0), PyInt(1), PyInt(99), PyStr(<<"1">>), PyStr(<<"n">>),
     PyStr(<<>>), None}

\* the passages the model was shown
EnrichContexts ==
    {<<>>, <<Passage(0)>>, <<Passage(1), Passage(0)>>}

InitEnrich ==
    /\ Idle
    /\ fn = "enrich_claims_with_source_chunks"
    /\ \E cites \in UNION {[1..n -> CiteEntries] : n \in 0..MaxCites},
          ps \in EnrichContexts :
          LET V == SetKey(ClaimNoCites, "source_citations", PyList(cites))
          IN  \E cs \in {<<V>>, <<ClaimB, V>>, <<V, ClaimNoCites>>} :
                  arg = [claims |-> PyList(cs), cite_map |-> cite_map_of(ps)]
    /\ out = None

\* enrich_claims_with_source_chunks(claims, cite_map, CITE_CHUNK_MAXLEN)
ApplyEnrich ==
    /\ fn = "enrich_claims_with_source_chunks"
    /\ IsNone(out)
    /\ out' = [r |-> enrich_claims_with_source_chunks(arg.claims, arg.cite_map,
                                                      CITE_CHUNK_MAXLEN)]
    /\ UNCHANGED <<pipeVars, fn, arg>>

NextEnrich == ApplyEnrich

SpecEnrich == InitEnrich /\ [][NextEnrich]_vars

-----------------------------------------------------------------------------
(* Vocabulary of the properties, stated without the operators above *)

\* agent_a_extract_claims has decided about the company
Decided ==
    pc \in {"EmptyRetrieval", "NoCompanyMatch", "NoCompany", "Selected",
            "Repair", "Extracted", "ParseFailed", "Raised", "Enriched",
            "Deduped"}

\* agent_a_extract_claims has ended without a selected company
NoSelection == pc \in {"EmptyRetrieval", "NoCompanyMatch", "NoCompany"}

IsSubstring(a, b) ==
    \E i \in 1..(Len(b) + 1), j \in 0..Len(b) : SubSeq(b, i, j) = a

\* a name with its whitespace removed, in lower case; None counts as empty
Stripped(v) ==
    IF IsStr(v)
    THEN LET t == SelectSeq(v.str, LAMBDA ch : ch \notin {" ", "\t"})
         IN  [i \in 1..Len(t) |-> Lower(t[i])]
    ELSE <<>>

\* the fuzzy match rule
FuzzyMatch(a, b) ==
    /\ Stripped(a) # <<>>
    /\ Stripped(b) # <<>>
    /\ IsSubstring(Stripped(a), Stripped(b)) \/ IsSubstring(Stripped(b), Stripped(a))

\* the company names of a retrieval result
Named(rs) == {rs[i].company : i \in {j \in 1..Len(rs) : rs[j].company.str # <<>>}}

RECURSIVE TotalScore(_, _)
\* the aggregate score of company c in rs
TotalScore(rs, c) ==
    IF rs = <<>> THEN 0
    ELSE (IF Head(rs).company = c THEN Head(rs).score ELSE 0)
         + TotalScore(Tail(rs), c)

FirstSeen(rs, c) ==
    CHOOSE i \in 1..Len(rs) :
        rs[i].company = c /\ \A j \in 1..(i - 1) : rs[j].company # c

\* the company with the greatest aggregate score, the first seen among equals
Best(rs) ==
    IF Named(rs) = {} THEN None
    ELSE CHOOSE c \in Named(rs) :
            \A d \in Named(rs) \ {c} :
                \/ TotalScore(rs, c) > TotalScore(rs, d)
                \/ /\ TotalScore(rs, c) = TotalScore(rs, d)
                   /\ FirstSeen(rs, c) < FirstSeen(rs, d)

\* the passages of rs whose company matches the preference
Matching(rs, preferred) ==
    SelectSeq(rs, LAMBDA r : FuzzyMatch(r.company, preferred))

EmptyResult(company) == [ok |-> TRUE, selected_company |-> company, claims |-> <<>>]

\* both responses of the model fail the parse
BothFail ==
    /\ Len(calls) = 2
    /\ IsNone(safe_parse_json(calls[1].text))
    /\ IsNone(safe_parse_json(calls[2].text))

-----------------------------------------------------------------------------
(* C1 .. C6: agent_a_extract_claims *)

\* C1: agent_a_extract_claims never raises, whatever the retrieval result and
\* whatever text the model returns: what the caller gets is always a result
\* of one of the documented shapes.
C1_NeverRaises ==
    /\ ~IsRaised(result)
    /\ ~IsNone(result) =>
          /\ result.ok \in BOOLEAN
          /\ DOMAIN result \in {{"ok", "selected_company", "claims"},
                                {"ok", "selected_company", "claims", "raw"}}

\* C2: once a company is selected, the result has ok=false exactly when both
\* model responses fail the parse, and then raw is the repair attempt's text
\* and claims is empty; in every other outcome the result has ok=true and no
\* raw field.
C2_OkFalseIffBothFail ==
    pc \in {"ParseFailed", "Raised", "Deduped"} =>
        IF BothFail
        THEN result = [ok |-> FALSE, selected_company |-> selected_company,
                       raw |-> calls[2].text, claims |-> <<>>]
        ELSE /\ ~IsRaised(result)
             /\ result.ok = TRUE
             /\ "raw" \notin DOMAIN result

\* C3: with a preferred company given, a non-empty retrieval, and no passage
\* whose company fuzzily matches it, the run ends with ok=true, claims=[] and
\* selected_company equal to the preferred name; no other company is selected.
C3_NoMatchKeepsPreferred ==
    (/\ fn = "agent_a_extract_claims"
     /\ pc \notin {"Init", "Retrieved"}
     /\ Truthy(preferred_company)
     /\ results # <<>>
     /\ Matching(results, preferred_company) = <<>>)
    => /\ pc = "NoCompanyMatch"
       /\ result = EmptyResult(preferred_company)
       /\ selected_company = None
       /\ calls = <<>>

C3_Witness ==
    /\ pc = "NoCompanyMatch"
    /\ preferred_company = PyStr(<<"c">>)
    /\ Cardinality(Named(results)) >= 2
    /\ results[1].score = MaxScore
    /\ result.selected_company = PyStr(<<"c">>)

\* C4: when retrieval returns no passages, the result is ok=true, claims=[],
\* with selected_company the preferred company if one was given and null
\* otherwise.
C4_EmptyRetrievalResult ==
    (pc \notin {"Init", "Retrieved", "off"} /\ results = <<>>)
    => /\ pc = "EmptyRetrieval"
       /\ result = EmptyResult(IF Truthy(preferred_company)
                               THEN preferred_company ELSE None)

C6_PreferredSelection ==
    (/\ fn = "agent_a_extract_claims"
     /\ Decided
     /\ Truthy(preferred_company)
     /\ Matching(results, preferred_company) # <<>>)
    => LET m == Matching(results, preferred_company)
       IN  /\ ~NoSelection
           /\ selected_company \in Named(m)
           /\ FuzzyMatch(selected_company, preferred_company)
           /\ \A d \in Named(m) :
                  TotalScore(m, selected_company) >= TotalScore(m, d)

\* more than COMPANY_TOPN companies match, and a passage of a company that
\* does not match has the best score of the search
C6_Witness ==
    /\ pc = "Selected"
    /\ Truthy(preferred_company)
    /\ Cardinality(Named(Matching(results, preferred_company))) > COMPANY_TOPN
    /\ ~FuzzyMatch(results[1].company, preferred_company)
    /\ results[1].company.str # <<>>
    /\ results[1].score > TotalScore(results, selected_company)

-----------------------------------------------------------------------------
(* C7: match_company_name *)

\* C7: match_company_name is symmetric in its arguments, false whenever a
\* name is empty once its whitespace is stripped, and otherwise true exactly
\* when one stripped, lower-cased name is a substring of the other.
C7_MatchRule ==
    (fn = "match_company_name" /\ ~IsNone(out))
    => /\ out.r = out.swapped
       /\ (Stripped(arg.name) = <<>> \/ Stripped(arg.preferred) = <<>>) => ~out.r
       /\ out.r = FuzzyMatch(arg.name, arg.preferred)

\* names that differ in case, whitespace and length, and match
C7_Witness ==
    /\ fn = "match_company_name"
    /\ ~IsNone(out)
    /\ out.r
    /\ IsStr(arg.name) /\ IsStr(arg.preferred)
    /\ arg.name.str = <<"A", " ">>
    /\ Len(Stripped(arg.preferred)) > Len(Stripped(arg.name))

-----------------------------------------------------------------------------
(* C8, C9: dedupe_claims *)

RECURSIVE WordsOf(_, _)
\* the maximal runs of non-whitespace characters of s; w is the run read so far
WordsOf(s, w) ==
    IF s = <<>> THEN (IF w = <<>> THEN <<>> ELSE <<w>>)
    ELSE IF Head(s) \in {" ", "\t"}
         THEN (IF w = <<>> THEN <<>> ELSE <<w>>) \o WordsOf(Tail(s), <<>>)
         ELSE WordsOf(Tail(s), Append(w, Head(s)))

Field(c, k) == IF k \in DOMAIN c.dict THEN c.dict[k].str ELSE <<>>

\* (company, whitespace-normalised claim_text, topic, metric)
KeyOf(c) ==
    <<Field(c, "company"), WordsOf(Field(c, "claim_text"), <<>>),
      Field(c, "topic"), Field(c, "metric")>>

\* the positions of key k in the list L
Occurrences(L, k) == {i \in 1..Len(L) : KeyOf(L[i]) = k}

Min(S) == CHOOSE x \in S : \A y \in S : x <= y

ListField(c, k) == IF k \in DOMAIN c.dict THEN c.dict[k].list ELSE <<>>

RECURSIVE ChunksOfKey(_, _)
\* the source_chunks of the claims of L with key k, concatenated in order
ChunksOfKey(L, k) ==
    IF L = <<>> THEN <<>>
    ELSE (IF KeyOf(Head(L)) = k THEN ListField(Head(L), "source_chunks") ELSE <<>>)
         \o ChunksOfKey(Tail(L), k)

\* the citation id strings of the claims of L with key k
CiteStringsOfKey(L, k) ==
    UNION {{Str(x) : x \in Range(ListField(L[i], "source_citations"))}
           : i \in Occurrences(L, k)}

\* C8: dedupe_claims(dedupe_claims(L)) = dedupe_claims(L) for every claim
\* list L.
C8_DedupeIdempotent ==
    (fn = "dedupe_claims" /\ "twice" \in DOMAIN out) => out.twice = out.once

\* a list with duplicates whose merged claim carries chunks
C8_Witness ==
    /\ fn = "dedupe_claims"
    /\ "twice" \in DOMAIN out
    /\ Len(out.once) = 2
    /\ Len(arg) = 3
    /\ \E i \in 1..2 : Len(ListField(out.once[i], "source_chunks")) >= 3

\* C9: dedupe_claims returns one claim per distinct key, in the order of the
\* keys' first occurrences; for a key that occurs more than once the
\* surviving claim's source_citations is the sorted set-union of the citation
\* id strings of all its occurrences and its source_chunks is the
\* concatenation of their chunks in input order.
C9_DedupeMerge ==
    (fn = "dedupe_claims" /\ "once" \in DOMAIN out)
    => LET L == arg
           R == out.once
       IN  /\ Len(R) = Cardinality({KeyOf(L[i]) : i \in 1..Len(L)})
           /\ \A i \in 1..Len(R) : Occurrences(L, KeyOf(R[i])) # {}
           /\ \A i, j \in 1..Len(R) :
                 i < j => Min(Occurrences(L, KeyOf(R[i])))
                            < Min(Occurrences(L, KeyOf(R[j])))
           /\ \A i \in 1..Len(R) :
                 LET k == KeyOf(R[i])
                     cs == ListField(R[i], "source_citations")
                 IN  Cardinality(Occurrences(L, k)) > 1 =>
                        /\ Range(cs) = CiteStringsOfKey(L, k)
                        /\ \A a, b \in 1..Len(cs) :
                              a < b => StrLess(cs[a].str, cs[b].str)
                        /\ ListField(R[i], "source_chunks") = ChunksOfKey(L, k)

\* one key occurs three times, with integer and string ids, with and without
\* source_chunks
C9_Witness ==
    /\ fn = "dedupe_claims"
    /\ "once" \in DOMAIN out
    /\ Len(arg) = 3
    /\ Len(out.once) = 1
    /\ Cardinality(Range(arg)) = 3
    /\ Len(ListField(out.once[1], "source_citations")) >= 4
    /\ Len(ListField(out.once[1], "source_chunks")) = 3

-----------------------------------------------------------------------------
(* C10: enrich_claims_with_source_chunks *)

\* what int() makes of the entries of CiteEntries; -1 where it raises
IntOfEntry(e) ==
    CASE e = PyInt(0) -> 0
      [] e = PyInt(1) -> 1
      [] e = PyInt(99) -> 99
      [] e = PyStr(<<"1">>) -> 1
      [] OTHER -> -1

\* C10: after enrich_claims_with_source_chunks every claim's source_chunks
\* holds, in citation order, one excerpt record for each source_citations
\* entry that is coercible to an integer and is a key of the citation index;
\* the other entries contribute nothing and nothing is raised.
C10_EnrichChunks ==
    (fn = "enrich_claims_with_source_chunks" /\ ~IsNone(out))
    => /\ ~IsRaised(out.r)
       /\ Len(out.r.list) = Len(arg.claims.list)
       /\ \A i \in 1..Len(out.r.list) :
             LET cites == ListField(arg.claims.list[i], "source_citations")
                 chunks == ListField(out.r.list[i], "source_chunks")
                 kept == {j \in 1..Len(cites) :
                             IntOfEntry(cites[j]) \in DOMAIN arg.cite_map}
             IN  /\ "source_chunks" \in DOMAIN out.r.list[i].dict
                 /\ Len(chunks) = Cardinality(kept)
                 /\ \A j \in kept :
                       LET n == Cardinality({x \in kept : x <= j})
                           p == arg.cite_map[IntOfEntry(cites[j])]
                       IN  /\ chunks[n].meta_id = IntOfEntry(cites[j])
                           /\ chunks[n].meta_id = p.meta_id
                           /\ chunks[n].company = p.company
                           /\ chunks[n].score = p.score

\* a claim cites an id that is not in the context, then a passage of the
\* context by a numeric string, then an entry that is no number
C10_Witness ==
    /\ fn = "enrich_claims_with_source_chunks"
    /\ ~IsNone(out)
    /\ \E i \in 1..Len(arg.claims.list) :
          /\ ListField(arg.claims.list[i], "source_citations")
                = <<PyInt(99), PyStr(<<"1">>), None>>
          /\ Len(ListField(out.r.list[i], "source_chunks")) = 1
    /\ DOMAIN arg.cite_map = {0, 1}

-----------------------------------------------------------------------------
(* C11: citations that are not in the context *)

\* the ids of the passages shown to the model
ContextIds == {selected_passages[i].meta_id : i \in 1..Len(selected_passages)}

\* a parsed response the post-processing is written for: a list of objects
\* whose source_citations, when present, is a list
ListOfClaims(v) ==
    /\ IsList(v)
    /\ \A i \in 1..Len(v.list) :
          /\ IsDict(v.list[i])
          /\ "source_citations" \in DOMAIN v.list[i].dict
                => IsList(v.list[i].dict["source_citations"])

\* C11 as stated: in the claims agent_a_extract_claims returns, no
\* source_citations entry refers to an id outside the retrieval context.
C11_NoDanglingCitation ==
    pc = "Deduped" =>
        \A i \in 1..Len(result.claims) :
            \A x \in Range(ListField(result.claims[i], "source_citations")) :
                ToInt(x).ok /\ ToInt(x).v \in ContextIds

\* C11 as amended: in the claims agent_a_extract_claims returns, no
\* source_chunks record refers to a passage outside the context shown to the
\* model (entries that are not ids of that context stay in source_citations
\* but contribute no record), and such an entry never causes an error: a run
\* raises only when the parsed response is not a list of claim objects.
C11_DanglingHasNoChunk ==
    /\ pc = "Deduped" =>
          \A i \in 1..Len(result.claims) :
              \A ch \in Range(ListField(result.claims[i], "source_chunks")) :
                  /\ ch.meta_id \in ContextIds
                  /\ \E j \in 1..Len(selected_passages) :
                        /\ selected_passages[j].meta_id = ch.meta_id
                        /\ selected_passages[j].company = ch.company
                        /\ selected_passages[j].score = ch.score
    /\ pc = "Raised" => ~ListOfClaims(safe_parse_json(raw))

\* a returned claim cites a passage that was retrieved for another company
\* and gets no record for it, while another returned claim keeps the unknown
\* id 99 next to a record of the context
C11_Witness ==
    /\ pc = "Deduped"
    /\ 2 \notin ContextIds
    /\ \E j \in 1..Len(results) : results[j].meta_id = 2
    /\ \E i \in 1..Len(result.claims) :
          /\ PyInt(2) \in Range(ListField(result.claims[i], "source_citations"))
          /\ ListField(result.claims[i], "source_chunks") = <<>>
    /\ \E i \in 1..Len(result.claims) :
          /\ PyStr(<<"9", "9">>) \in Range(ListField(result.claims[i], "source_citations"))
          /\ Len(ListField(result.claims[i], "source_chunks")) >= 2

-----------------------------------------------------------------------------
(* C12: faults of the external services *)

\* the exception of an external service, as it reaches the caller of
\* agent_a_extract_claims
ServiceFault == [fault |-> TRUE]

\* embedder.encode or index.search raises inside retrieve_all; nothing
\* catches it
RetrieveFails ==
    /\ pc = "Init"
    /\ result' = ServiceFault
    /\ pc' = "Faulted"
    /\ UNCHANGED <<preferred_company, hits, results, filtered, company_ranked,
                   selected_company, selected_passages, calls, raw, cite_map,
                   parsed, fnVars>>

\* the first ollama.chat raises inside ask_llm_extract_claims; nothing
\* catches it
AskModelFails ==
    /\ pc = "Selected"
    /\ result' = ServiceFault
    /\ pc' = "Faulted"
    /\ UNCHANGED <<preferred_company, hits, results, filtered, company_ranked,
                   selected_company, selected_passages, calls, raw, cite_map,
                   parsed, fnVars>>

\* the second ollama.chat raises inside ask_llm_extract_claims; nothing
\* catches it
AskRepairFails ==
    /\ pc = "Repair"
    /\ result' = ServiceFault
    /\ pc' = "Faulted"
    /\ UNCHANGED <<preferred_company, hits, results, filtered, company_ranked,
                   selected_company, selected_passages, calls, raw, cite_map,
                   parsed, fnVars>>

NextFaults ==
    \/ Next
    \/ RetrieveFails
    \/ AskModelFails
    \/ AskRepairFails

SpecFaults == Init /\ [][NextFaults]_vars

\* C12: when the index search or a model call fails, agent_a_extract_claims
\* does not pass the fault on to its caller: the request ends with a
\* structured result of the UnresolvableOutput or the empty-result shape.
C12_FaultsContained ==
    pc = "Faulted" =>
        /\ "ok" \in DOMAIN result
        /\ \/ result.ok /\ result.claims = <<>>
           \/ ~result.ok /\ "raw" \in DOMAIN result /\ result.claims = <<>>

-----------------------------------------------------------------------------
(* C13: the calls of ask_llm_extract_claims *)

\* the texts of ModelTexts that Python's json.loads, or json.loads of the
\* span from the first "[" to the last "]", turns into a value other than None
ValidTexts ==
    {TextEmptyArray, TextClaims, TextWrapped, TextNonObjects, TextObject,
     TextScalar, TextNullCites, TextJunkObject}

\* ask_llm_extract_claims has returned
Asked == pc \in {"Extracted", "ParseFailed", "Raised", "Enriched", "Deduped"}

\* C13: ask_llm_extract_claims calls the model once when the first response
\* validates and twice otherwise, never more; it returns the first text in
\* the first case and the repair text, valid or not, in the second.  Both
\* calls carry the same evidence context and the citation index returned is
\* the index of the passages of that context in both cases.
C13_OneRepair ==
    /\ Len(calls) <= 2
    /\ Asked =>
          /\ Len(calls) >= 1
          /\ Len(calls) = 1 <=> calls[1].text \in ValidTexts
          /\ raw = calls[Len(calls)].text
          /\ \A k \in 1..Len(calls) :
                /\ Len(calls[k].context) = Len(selected_passages)
                /\ \A i \in 1..Len(selected_passages) :
                      /\ calls[k].context[i][1] = selected_passages[i].meta_id
                      /\ calls[k].context[i][2] = selected_passages[i].company
                      /\ calls[k].context[i][3] = selected_passages[i].chunk
          /\ DOMAIN cite_map = ContextIds
          /\ \A i \in 1..Len(selected_passages) :
                cite_map[selected_passages[i].meta_id] = selected_passages[i]

\* the repair text does not validate either and is what is returned, for a
\* context of several passages
C13_Witness ==
    /\ pc = "Extracted"
    /\ Len(calls) = 2
    /\ calls[1].text = TextNull
    /\ calls[2].text = TextUnclosed
    /\ raw = TextUnclosed
    /\ Len(selected_passages) >= 2

-----------------------------------------------------------------------------
(* C14: safe_parse_json applied on its own *)

MaxTextLen == 3     \* tokens of a text given to safe_parse_json

TextTokens ==
    {LB, RB, Junk, Lit(PyInt(7)), Lit(PyStr(<<"s">>)), Lit(None), Lit(ClaimA)}

InitParse ==
    /\ Idle
    /\ fn = "safe_parse_json"
    /\ arg \in UNION {[1..n -> TextTokens] : n \in 0..MaxTextLen}
    /\ out = None

\* safe_parse_json(text)
ApplyParse ==
    /\ fn = "safe_parse_json"
    /\ IsNone(out)
    /\ out' = [r |-> safe_parse_json(arg)]
    /\ UNCHANGED <<pipeVars, fn, arg>>

NextParse == ApplyParse

SpecParse == InitParse /\ [][NextParse]_vars

\* C14: safe_parse_json reports a text as valid only when the whole text, or
\* its first bracketed span, parses as a JSON array: whatever it returns is
\* a list, and every other text, a JSON object, number or string among
\* them, gives None.
C14_ArraysOnly ==
    (fn = "safe_parse_json" /\ ~IsNone(out)) =>
        (IsNone(out.r) \/ IsList(out.r))

-----------------------------------------------------------------------------
(* C15: pick_company_passages applied on its own *)

MaxLimit == 2       \* the largest limit given to pick_company_passages

\* results in any order: at most MaxHits distinct rows of 0..4
PickResults ==
    UNION {{retrieve_all(h) :
                h \in {g \in [1..n -> [id : 0..4, score : 1..MaxScore]] :
                          \A i, j \in 1..n : i < j => g[i].id # g[j].id}}
           : n \in 0..MaxHits}

PickCompanies ==
    {Name(<<"a">>), Name(<<"A", " ", "b">>), Name(<<"b">>), Name(<<>>),
     Name(<<"c">>)}

InitPick ==
    /\ Idle
    /\ fn = "pick_company_passages"
    /\ arg \in [results : PickResults, company : PickCompanies,
                limit : 0..MaxLimit]
    /\ out = None

\* pick_company_passages(results, company, limit); cands is a list of its
\* own, so results is after the call what it was before
ApplyPick ==
    /\ fn = "pick_company_passages"
    /\ IsNone(out)
    /\ out' = [r |-> pick_company_passages(arg.results, arg.company, arg.limit),
               results |-> arg.results]
    /\ UNCHANGED <<pipeVars, fn, arg>>

NextPick == ApplyPick

SpecPick == InitPick /\ [][NextPick]_vars

Picked == fn = "pick_company_passages" /\ ~IsNone(out)

\* the passages of results with exactly this company
OfCompany == {p \in Range(arg.results) : p.company = arg.company}

\* C15: pick_company_passages returns passages of results whose company is
\* exactly the given one, in non-increasing order of score, at most limit of
\* them (all of them when there are no more than limit); no passage of that
\* company left out has a strictly higher score than a returned one; results
\* is unchanged.
C15_PickPassages ==
    Picked =>
        LET r == out.r
        IN  /\ \A i \in 1..Len(r) : r[i] \in OfCompany
            /\ \A i, j \in 1..Len(r) : i < j =>
                  r[i] # r[j] /\ r[i].score >= r[j].score
            /\ Len(r) <= arg.limit
            /\ Len(r) = Min({arg.limit, Cardinality(OfCompany)})
            /\ \A p \in OfCompany \ Range(r) :
                  \A i \in 1..Len(r) : p.score <= r[i].score
            /\ out.results = arg.results

\* company "a" and limit 1: the first passage of results is of "A b", which
\* matches "a" as a preference and scores as high as any, but is not
\* returned; of the two passages of "a" the later, higher-scoring one is
\* returned and the other is left out
C15_Witness ==
    /\ Picked
    /\ arg.company = Name(<<"a">>)
    /\ arg.limit = 1
    /\ Len(arg.results) = 3
    /\ arg.results[1].company = Name(<<"A", " ", "b">>)
    /\ arg.results[2].company = Name(<<"a">>)
    /\ arg.results[3].company = Name(<<"a">>)
    /\ arg.results[2].score < arg.results[3].score
    /\ arg.results[3].score <= arg.results[1].score
    /\ match_company_name(arg.results[1].company, arg.company)
    /\ out.r = <<arg.results[3]>>

-----------------------------------------------------------------------------
(* C16: the stages of agent_a_extract_claims *)

\* the stages and terminal states the run may be in; the repair call is part
\* of the step from Selected to Extracted
Stages ==
    {"Init", "Retrieved", "Ranked", "Selected", "Repair", "Extracted",
     "Enriched", "Deduped", "EmptyRetrieval", "NoCompanyMatch", "ParseFailed"}

\* C16: a run of agent_a_extract_claims is always in one of the stages Init,
\* Retrieved, Ranked, Selected, Extracted, Enriched, Deduped or stopped in
\* EmptyRetrieval, NoCompanyMatch or ParseFailed; a non-empty retrieval
\* stops without a selected company iff a preferred company was given and no
\* passage matches it; the model is not called on a run that stops without a
\* selection; enrichment and deduplication follow a successful parse.
C16_StagesAndTerminals ==
    fn = "agent_a_extract_claims" =>
        /\ pc \in Stages
        /\ (Decided /\ results # <<>>) =>
              (NoSelection <=>
                   /\ Truthy(preferred_company)
                   /\ Matching(results, preferred_company) = <<>>)
        /\ NoSelection => calls = <<>>
        /\ pc \in {"Enriched", "Deduped"} =>
              /\ calls # <<>>
              /\ ~IsNone(parsed)

====
